---- MODULE Spec2Model ----
(***************************************************************************)
(* S3-Minio-Write-Read: a batch ETL that stages twelve monthly parquet     *)
(* files in a MinIO bucket, reads them back through DuckDB, adds three     *)
(* provenance columns and reloads them into a Postgres table.              *)
(*                                                                         *)
(* Four specifications share the variables below:                          *)
(*   SpecName   is_valid_bucket_name applied to bounded names              *)
(*   SpecStore  create_bucket / remove_bucket / load_data_to_bucket_via_url*)
(*   SpecEtl    extract_parquet_from_s3 / transform_df / load_df_to_postgres*)
(*   Spec       main(), the orchestrator                                   *)
(*                                                                         *)
(* Strings that the code inspects character by character (bucket names)    *)
(* are sequences of one-character strings; all other strings are strings.  *)
(***************************************************************************)
EXTENDS Integers, Sequences, FiniteSets, TLC

VARIABLES
    name,          \* SpecName: the argument of is_valid_bucket_name
    typed,         \* SpecName: characters typed so far (bounds the name)
    pastes,        \* SpecName: fragments pasted so far (bounds the name)
    valid,         \* SpecName: what is_valid_bucket_name returned for name
    buckets,       \* the object store: names of the buckets that exist
    objects,       \* the object store: set of [bucket, key, body]
    wh,            \* the warehouse: [schema, exists, cols, rows] of the target table
    df,            \* the DataFrame in hand: [cols, rows]
    clock,         \* the wall clock datetime.now() reads
    last,          \* the last call: operation, arguments, result, external calls made
    pc,            \* main(): position
    i,             \* main(): loop index of the pass in progress
    files_loaded,  \* main(): the list filled by the first pass
    trace,         \* main(): the calls made so far, in order
    faults         \* main(): environment faults injected so far

vars == <<name, typed, pastes, valid, buckets, objects, wh, df, clock, last,
          pc, i, files_loaded, trace, faults>>

Range(s) == {s[n] : n \in 1..Len(s)}

(***************************************************************************)
(* Bounds of the model.                                                    *)
(***************************************************************************)
MaxTyped == 3      \* single characters typed into a name
MaxPastes == 1     \* fragments pasted into a name
PadLen == 61       \* length of the filler fragment: names of 61..64 characters
MaxRows == 3       \* rows the warehouse table may hold
MaxClock == 1      \* the clock runs 0..MaxClock
MaxFaults == 3     \* faults the environment injects into one run of main()

(***************************************************************************)
(* Characters.                                                             *)
(***************************************************************************)
LowerChars ==
    {"a","b","c","d","e","f","g","h","i","j","k","l","m",
     "n","o","p","q","r","s","t","u","v","w","x","y","z"}
UpperChars ==
    {"A","B","C","D","E","F","G","H","I","J","K","L","M",
     "N","O","P","Q","R","S","T","U","V","W","X","Y","Z"}
DigitChars == {"0","1","2","3","4","5","6","7","8","9"}

\* what the bounded names are typed from
Alphabet == {"a", "1", ".", "-", "_", "A"}

Fill(c, n) == [k \in 1..n |-> c]

XnPrefix == <<"x","n","-","-">>
S3Alias == <<"-","s","3","a","l","i","a","s">>
DottedQuad == <<"1",".","1",".","1",".","1">>
Fragments == {XnPrefix, S3Alias, DottedQuad, Fill("a", PadLen)}

(***************************************************************************)
(* is_valid_bucket_name                                                    *)
(***************************************************************************)
startswith(s, p) == Len(s) >= Len(p) /\ SubSeq(s, 1, Len(p)) = p
endswith(s, p) == Len(s) >= Len(p) /\ SubSeq(s, Len(s) - Len(p) + 1, Len(s)) = p

\* re.fullmatch(r"[a-z0-9][a-z0-9\-\.]*[a-z0-9]", s)
FullMatchName(s) ==
    /\ Len(s) >= 2
    /\ s[1] \in LowerChars \cup DigitChars
    /\ s[Len(s)] \in LowerChars \cup DigitChars
    /\ \A n \in 1..Len(s) : s[n] \in LowerChars \cup DigitChars \cup {"-", "."}

\* re.fullmatch(r"\d+\.\d+\.\d+\.\d+", s): the language of the pattern is the
\* strings of digits and exactly three dots in which every dot stands between
\* two digits.  (\d also matches the non-ASCII decimal digits, which no name
\* typed from Alphabet holds.)
Dots(s) == {n \in 1..Len(s) : s[n] = "."}
FullMatchIp(s) ==
    /\ \A n \in 1..Len(s) : s[n] \in DigitChars \cup {"."}
    /\ Cardinality(Dots(s)) = 3
    /\ \A n \in Dots(s) : n > 1 /\ n < Len(s) /\ s[n - 1] # "." /\ s[n + 1] # "."

\* the length test off by one at the upper end
is_valid_bucket_name_len(s) ==
    IF Len(s) < 3 \/ Len(s) >= 63 THEN FALSE
    ELSE IF ~FullMatchName(s) THEN FALSE
    ELSE IF "_" \in Range(s) THEN FALSE
    ELSE IF FullMatchIp(s) THEN FALSE
    ELSE IF startswith(s, XnPrefix) THEN FALSE
    ELSE IF endswith(s, S3Alias) THEN FALSE
    ELSE TRUE
is_valid_bucket_name(s) ==
    IF Len(s) < 3 \/ Len(s) > 63 THEN FALSE
    ELSE IF ~FullMatchName(s) THEN FALSE
    ELSE IF "_" \in Range(s) THEN FALSE
    ELSE IF FullMatchIp(s) THEN FALSE
    ELSE IF startswith(s, XnPrefix) THEN FALSE
    ELSE IF endswith(s, S3Alias) THEN FALSE
    ELSE TRUE


(***************************************************************************)
(* The object store (MinIO) and the remote file source (HTTP).             *)
(*                                                                         *)
(* The isinstance checks that open every function of s3_minio_utils raise  *)
(* TypeError; every call modelled here passes a Minio client and strings,  *)
(* so they are not represented.                                            *)
(*                                                                         *)
(* Outcomes of the external calls are inputs of the operators:             *)
(*   probe  client.bucket_exists: "answer" (a boolean) or "error" (raises) *)
(*   mk     client.make_bucket:   "ok" or "error"                          *)
(*   rm     client.remove_bucket: "ok" or "error"                          *)
(*   get    requests.get: [raised, status, body]                           *)
(*   put    client.put_object: "ok" or "error"                             *)
(* An S3 PUT is atomic: a failed put_object leaves the key as it was.      *)
(***************************************************************************)
BUCKET_NAME == <<"n","y","c","-","t","a","x","i","-","d","a","t","a">>
YEAR == 2025
BASE_URL == "https://d37ci6vzurychx.cloudfront.net/trip-data/"

\* f"{i:02}"
Pad2(m) == IF m < 10 THEN "0" \o ToString(m) ELSE ToString(m)
\* f"yellow_tripdata_{YEAR}-{i:02}.parquet"
Filename(m) == "yellow_tripdata_" \o ToString(YEAR) \o "-" \o Pad2(m) \o ".parquet"
\* f"{YEAR}/{i:02}/" + filename
Filepath(m) == ToString(YEAR) \o "/" \o Pad2(m) \o "/" \o Filename(m)
\* f"{BASE_URL}{filename}"
Url(m) == BASE_URL \o Filename(m)

\* a file body: parquet or not, and the data rows it holds
Body(p, r) == [parquet |-> p, rows |-> r]
Garbage == Body(FALSE, <<>>)

NoExc == "none"
Result(ret, exc, cause, calls, bks, objs) ==
    [ret |-> ret, exc |-> exc, cause |-> cause, calls |-> calls,
     buckets |-> bks, objects |-> objs]

\* creation attempted although the bucket exists
create_bucket_always(bks, objs, nm, probe, mk) ==
    IF ~is_valid_bucket_name(nm)
    THEN Result("-", "ValueError", NoExc, <<>>, bks, objs)
    ELSE IF probe = "error"
    THEN Result("-", "S3Error", NoExc, <<"bucket_exists">>, bks, objs)
    ELSE IF mk = "ok"
    THEN Result("True", NoExc, NoExc, <<"bucket_exists", "make_bucket">>,
                bks \cup {nm}, objs)
    ELSE Result("-", "RuntimeError", "S3Error",
                <<"bucket_exists", "make_bucket">>, bks, objs)
create_bucket(bks, objs, nm, probe, mk) ==
    IF ~is_valid_bucket_name(nm)
    THEN Result("-", "ValueError", NoExc, <<>>, bks, objs)
    ELSE IF probe = "error"
    THEN Result("-", "S3Error", NoExc, <<"bucket_exists">>, bks, objs)
    ELSE IF nm \in bks
    THEN Result("True", NoExc, NoExc, <<"bucket_exists">>, bks, objs)
    ELSE IF mk = "ok"
    THEN Result("True", NoExc, NoExc, <<"bucket_exists", "make_bucket">>,
                bks \cup {nm}, objs)
    ELSE Result("-", "RuntimeError", "S3Error",
                <<"bucket_exists", "make_bucket">>, bks, objs)

\* the store refuses to remove a bucket that still holds objects
remove_bucket(bks, objs, nm, probe, rm) ==
    IF probe = "error"
    THEN Result("-", "S3Error", NoExc, <<"bucket_exists">>, bks, objs)
    ELSE IF nm \in bks
    THEN IF rm = "error" \/ \E o \in objs : o.bucket = nm
         THEN Result("-", "S3Error", NoExc,
                     <<"bucket_exists", "remove_bucket">>, bks, objs)
         ELSE Result("True", NoExc, NoExc,
                     <<"bucket_exists", "remove_bucket">>, bks \ {nm}, objs)
    ELSE Result("False", NoExc, NoExc, <<"bucket_exists">>, bks, objs)

\* client.put_object on the store: the key is written or overwritten
PutObject(objs, b, k, body) ==
    {o \in objs : ~(o.bucket = b /\ o.key = k)}
        \cup {[bucket |-> b, key |-> k, body |-> body]}

\* a failed upload leaves a truncated object behind and reports success
load_data_to_bucket_via_url_partial(bks, objs, bucket_name, file_path, probe, get, put) ==
    IF probe = "error"
    THEN Result("-", "S3Error", NoExc, <<"bucket_exists">>, bks, objs)
    ELSE IF get.raised
    THEN Result("False", NoExc, NoExc, <<"bucket_exists", "get">>, bks, objs)
    ELSE IF get.status # 200
    THEN Result("False", NoExc, NoExc, <<"bucket_exists", "get">>, bks, objs)
    ELSE IF bucket_name \notin bks
    THEN Result("False", NoExc, NoExc,
                <<"bucket_exists", "get", "put_object">>, bks, objs)
    ELSE IF put = "error"
    THEN Result("True", NoExc, NoExc,
                <<"bucket_exists", "get", "put_object">>, bks,
                PutObject(objs, bucket_name, file_path, Garbage))
    ELSE Result("True", NoExc, NoExc,
                <<"bucket_exists", "get", "put_object">>, bks,
                PutObject(objs, bucket_name, file_path, get.body))
\* an absent bucket ends the call before the download
load_data_to_bucket_via_url_failfast(bks, objs, bucket_name, file_path, probe, get, put) ==
    IF probe = "error"
    THEN Result("-", "S3Error", NoExc, <<"bucket_exists">>, bks, objs)
    ELSE IF bucket_name \notin bks
    THEN Result("False", NoExc, NoExc, <<"bucket_exists">>, bks, objs)
    ELSE IF get.raised
    THEN Result("False", NoExc, NoExc, <<"bucket_exists", "get">>, bks, objs)
    ELSE IF get.status # 200
    THEN Result("False", NoExc, NoExc, <<"bucket_exists", "get">>, bks, objs)
    ELSE IF put = "error"
    THEN Result("False", NoExc, NoExc,
                <<"bucket_exists", "get", "put_object">>, bks, objs)
    ELSE Result("True", NoExc, NoExc,
                <<"bucket_exists", "get", "put_object">>, bks,
                PutObject(objs, bucket_name, file_path, get.body))
load_data_to_bucket_via_url(bks, objs, bucket_name, file_path, probe, get, put) ==
    IF probe = "error"
    \* line 156 is outside every try: the error of the probe propagates
    THEN Result("-", "S3Error", NoExc, <<"bucket_exists">>, bks, objs)
    \* an absent bucket is logged, nothing more
    ELSE IF get.raised
    THEN Result("False", NoExc, NoExc, <<"bucket_exists", "get">>, bks, objs)
    ELSE IF get.status # 200
    THEN Result("False", NoExc, NoExc, <<"bucket_exists", "get">>, bks, objs)
    \* put_object raises NoSuchBucket on an absent bucket, or the error of the upload
    ELSE IF bucket_name \notin bks \/ put = "error"
    THEN Result("False", NoExc, NoExc,
                <<"bucket_exists", "get", "put_object">>, bks, objs)
    ELSE Result("True", NoExc, NoExc,
                <<"bucket_exists", "get", "put_object">>, bks,
                PutObject(objs, bucket_name, file_path, get.body))

(***************************************************************************)
(* DataFrames and the warehouse table.                                     *)
(*                                                                         *)
(* A DataFrame is [cols, rows]: cols is "none" (DataFrame(), no columns),  *)
(* "raw" (the columns of the file) or "prov" (the columns of the file and  *)
(* ingested_at, source_system, source_file).  A row of a "raw" frame is    *)
(* the record [d], d the data of the row; a row of a "prov" frame is       *)
(* [d, ingested_at, source_system, source_file].                           *)
(***************************************************************************)
DataFrame == [cols |-> "none", rows |-> <<>>]
RawRow(v) == [d |-> v]
\* df.empty
empty(d) == d.cols = "none" \/ d.rows = <<>>

Find(bks, objs, b, k) == {o \in objs : o.bucket = b /\ o.key = k /\ b \in bks}

\* the error of the query propagates
extract_parquet_from_s3_raises(bks, objs, bucket_name, object_name, net) ==
    IF \/ net = "error"
       \/ Find(bks, objs, bucket_name, object_name) = {}
       \/ \E o \in Find(bks, objs, bucket_name, object_name) : ~o.body.parquet
    THEN [df |-> DataFrame, exc |-> "IOException", calls |-> <<"duckdb.sql">>]
    ELSE LET o == CHOOSE o \in Find(bks, objs, bucket_name, object_name) : TRUE IN
         [df |-> [cols |-> "raw",
                  rows |-> [n \in 1..Len(o.body.rows) |-> RawRow(o.body.rows[n])]],
          exc |-> NoExc, calls |-> <<"duckdb.sql">>]
\* net: the outcome of the query's round trip to the store, "ok" or "error"
extract_parquet_from_s3(bks, objs, bucket_name, object_name, net) ==
    IF \/ net = "error"
       \/ Find(bks, objs, bucket_name, object_name) = {}
       \/ \E o \in Find(bks, objs, bucket_name, object_name) : ~o.body.parquet
    THEN [df |-> DataFrame, exc |-> NoExc, calls |-> <<"duckdb.sql">>]
    ELSE LET o == CHOOSE o \in Find(bks, objs, bucket_name, object_name) : TRUE IN
         [df |-> [cols |-> "raw",
                  rows |-> [n \in 1..Len(o.body.rows) |-> RawRow(o.body.rows[n])]],
          exc |-> NoExc, calls |-> <<"duckdb.sql">>]

SOURCE_SYSTEM == "s3"
transform_df(d, object_name, now) ==
    IF empty(d) THEN d
    ELSE [cols |-> "prov",
          rows |-> [n \in 1..Len(d.rows) |->
                      [d |-> d.rows[n].d, ingested_at |-> now,
                       source_system |-> SOURCE_SYSTEM, source_file |-> object_name]]]

(***************************************************************************)
(* load_df_to_postgres.  out names the statement the warehouse fails at:   *)
(* "none", "attach", "schema", "create", "delete" or "insert".  DuckDB     *)
(* runs the statements of one execute() one after the other, each in its   *)
(* own implicit transaction, so what ran before the failing statement      *)
(* stays.                                                                  *)
(***************************************************************************)
LoadResult(exc, calls, w) == [exc |-> exc, calls |-> calls, wh |-> w]
ConnectCalls == <<"install", "attach", "register">>

\* CREATE TABLE IF NOT EXISTS pg.schema.table AS SELECT * FROM input_df LIMIT 0
CreateTable(w, d) ==
    IF w.exists THEN w ELSE [w EXCEPT !.exists = TRUE, !.cols = d.cols, !.rows = <<>>]
\* DELETE FROM pg.schema.table WHERE source_system = 'object_name'
Delete(w, object_name) ==
    [w EXCEPT !.rows = SelectSeq(w.rows, LAMBDA r : r.source_system # object_name)]
\* INSERT INTO pg.schema.table SELECT * FROM input_df
Insert(w, d) == [w EXCEPT !.rows = w.rows \o d.rows]

\* the empty frame is not short-circuited
load_df_to_postgres_noguard(w, d, object_name, out) ==
    IF out = "attach" THEN LoadResult("Error", ConnectCalls, w)
    ELSE LET w1 == [w EXCEPT !.schema = TRUE]
             w2 == CreateTable(w1, d)
             w3 == Delete(w2, object_name)
         IN  IF out = "schema"
             THEN LoadResult("Error", ConnectCalls \o <<"create_schema">>, w)
             ELSE IF out = "create"
             THEN LoadResult("Error", ConnectCalls \o <<"create_schema", "create_table">>, w1)
             ELSE IF out = "delete" \/ w2.cols # "prov"
             THEN LoadResult("Error",
                     ConnectCalls \o <<"create_schema", "create_table", "delete">>, w2)
             ELSE IF out = "insert" \/ w3.cols # d.cols
             THEN LoadResult("Error",
                     ConnectCalls \o <<"create_schema", "create_table", "delete", "insert">>, w3)
             ELSE LoadResult(NoExc,
                     ConnectCalls \o <<"create_schema", "create_table", "delete", "insert">>,
                     Insert(w3, d))
load_df_to_postgres(w, d, object_name, out) ==
    IF empty(d) THEN LoadResult(NoExc, <<>>, w)
    ELSE IF out = "attach" THEN LoadResult("Error", ConnectCalls, w)
    ELSE LET w1 == [w EXCEPT !.schema = TRUE]
             w2 == CreateTable(w1, d)
             w3 == Delete(w2, object_name)
         IN  IF out = "schema"
             THEN LoadResult("Error", ConnectCalls \o <<"create_schema">>, w)
             ELSE IF out = "create"
             THEN LoadResult("Error", ConnectCalls \o <<"create_schema", "create_table">>, w1)
             \* a table created from a frame without provenance has no source_system
             ELSE IF out = "delete" \/ w2.cols # "prov"
             THEN LoadResult("Error",
                     ConnectCalls \o <<"create_schema", "create_table", "delete">>, w2)
             \* the frame's column layout must be the table's
             ELSE IF out = "insert" \/ w3.cols # d.cols
             THEN LoadResult("Error",
                     ConnectCalls \o <<"create_schema", "create_table", "delete", "insert">>, w3)
             ELSE LoadResult(NoExc,
                     ConnectCalls \o <<"create_schema", "create_table", "delete", "insert">>,
                     Insert(w3, d))

(***************************************************************************)
(* State shared by the specifications.                                     *)
(***************************************************************************)
nameVars == <<name, typed, pastes, valid>>
storeVars == <<buckets, objects>>
etlVars == <<wh, df, clock>>
mainVars == <<pc, i, files_loaded, trace, faults>>

NoGet == [raised |-> TRUE, status |-> 0, body |-> Garbage]
\* the outcomes the environment chose for a call: the existence probe, the
\* HTTP GET, and the one other external call the operation makes
Env(probe, get, act) == [probe |-> probe, get |-> get, act |-> act]
NoEnv == Env("-", NoGet, "-")
Call(op, bucket, key, d, ret, exc, cause, calls, env) ==
    [op |-> op, bucket |-> bucket, key |-> key, df |-> d, ret |-> ret,
     exc |-> exc, cause |-> cause, calls |-> calls, env |-> env]
NoCall == Call("none", <<>>, "", DataFrame, "-", NoExc, NoExc, <<>>, NoEnv)

NoTable == [schema |-> FALSE, exists |-> FALSE, cols |-> "none", rows |-> <<>>]

NameIdle == name = <<>> /\ typed = 0 /\ pastes = 0 /\ valid = FALSE
StoreIdle == buckets = {} /\ objects = {}
EtlIdle == wh = NoTable /\ df = DataFrame /\ clock = 0
MainIdle == pc = "idle" /\ i = 0 /\ files_loaded = <<>> /\ trace = <<>> /\ faults = 0

(***************************************************************************)
(* SpecName: is_valid_bucket_name on names typed and pasted together.      *)
(***************************************************************************)
InitName == NameIdle /\ StoreIdle /\ EtlIdle /\ MainIdle /\ last = NoCall

Type(c) ==
    /\ typed < MaxTyped
    /\ name' = Append(name, c)
    /\ typed' = typed + 1
    /\ valid' = is_valid_bucket_name(name')
    /\ UNCHANGED <<pastes, storeVars, etlVars, mainVars, last>>

Paste(f) ==
    /\ pastes < MaxPastes
    /\ name' = name \o f
    /\ pastes' = pastes + 1
    /\ valid' = is_valid_bucket_name(name')
    /\ UNCHANGED <<typed, storeVars, etlVars, mainVars, last>>

NextName == (\E c \in Alphabet : Type(c)) \/ (\E f \in Fragments : Paste(f))
SpecName == InitName /\ [][NextName]_vars

(***************************************************************************)
(* SpecStore: the bucket manager and fetch-and-stage, called with any      *)
(* arguments in any order.                                                 *)
(***************************************************************************)
OTHER_NAME == <<"t","m","p">>
BAD_NAME == <<"M","y","_","B">>
StoreNames == {BUCKET_NAME, OTHER_NAME, BAD_NAME}
StoreKeys == {Filepath(1)}
StoreBodies == {Body(TRUE, <<1>>), Body(TRUE, <<2>>)}
Probes == {"answer", "error"}
Acts == {"ok", "error"}
GetOutcomes(bodies) ==
    {NoGet, [raised |-> FALSE, status |-> 404, body |-> Garbage]}
        \cup {[raised |-> FALSE, status |-> 200, body |-> b] : b \in bodies}

InitStore == NameIdle /\ StoreIdle /\ EtlIdle /\ MainIdle /\ last = NoCall

CreateBucket(nm, probe, mk) ==
    LET r == create_bucket(buckets, objects, nm, probe, mk) IN
    /\ buckets' = r.buckets
    /\ objects' = r.objects
    /\ last' = Call("create_bucket", nm, "", DataFrame, r.ret, r.exc, r.cause,
                    r.calls, Env(probe, NoGet, mk))
    /\ UNCHANGED <<nameVars, etlVars, mainVars>>

RemoveBucket(nm, probe, rm) ==
    LET r == remove_bucket(buckets, objects, nm, probe, rm) IN
    /\ buckets' = r.buckets
    /\ objects' = r.objects
    /\ last' = Call("remove_bucket", nm, "", DataFrame, r.ret, r.exc, r.cause,
                    r.calls, Env(probe, NoGet, rm))
    /\ UNCHANGED <<nameVars, etlVars, mainVars>>

Stage(nm, k, probe, get, put) ==
    LET r == load_data_to_bucket_via_url(buckets, objects, nm, k, probe, get, put) IN
    /\ buckets' = r.buckets
    /\ objects' = r.objects
    /\ last' = Call("stage", nm, k, DataFrame, r.ret, r.exc, r.cause,
                    r.calls, Env(probe, get, put))
    /\ UNCHANGED <<nameVars, etlVars, mainVars>>

NextStore ==
    \/ \E nm \in StoreNames, probe \in Probes, mk \in Acts : CreateBucket(nm, probe, mk)
    \/ \E nm \in StoreNames, probe \in Probes, rm \in Acts : RemoveBucket(nm, probe, rm)
    \/ \E nm \in StoreNames, k \in StoreKeys, probe \in Probes,
          get \in GetOutcomes(StoreBodies), put \in Acts : Stage(nm, k, probe, get, put)
SpecStore == InitStore /\ [][NextStore]_vars

(***************************************************************************)
(* SpecEtl: extract, transform and load, called with any arguments in any  *)
(* order, against a store that holds any of a few files.                   *)
(***************************************************************************)
EtlBodies == {Garbage, Body(TRUE, <<>>), Body(TRUE, <<1>>), Body(TRUE, <<1, 2>>)}
EtlBuckets == {BUCKET_NAME, OTHER_NAME}
EtlKeys == {Filepath(1), Filepath(2)}
\* object_name arguments: a key, the default "" and the source-system tag
ObjectNames == {Filepath(1), "", SOURCE_SYSTEM}
LoadOutcomes == {"none", "attach", "schema", "create", "delete", "insert"}

InitEtl ==
    /\ NameIdle /\ EtlIdle /\ MainIdle /\ last = NoCall
    /\ buckets = {BUCKET_NAME}
    /\ \E b \in EtlBodies :
          objects \in {{}, {[bucket |-> BUCKET_NAME, key |-> Filepath(1), body |-> b]}}

Extract(nm, k, net) ==
    LET r == extract_parquet_from_s3(buckets, objects, nm, k, net) IN
    /\ df' = IF r.exc = NoExc THEN r.df ELSE df
    /\ last' = Call("extract", nm, k, DataFrame, "-", r.exc, NoExc, r.calls,
                    Env("-", NoGet, net))
    /\ UNCHANGED <<nameVars, storeVars, wh, clock, mainVars>>

Transform(object_name) ==
    /\ df' = transform_df(df, object_name, clock)
    /\ last' = Call("transform", <<>>, object_name, df, "-", NoExc, NoExc, <<>>, NoEnv)
    /\ UNCHANGED <<nameVars, storeVars, wh, clock, mainVars>>

Load(object_name, out) ==
    LET r == load_df_to_postgres(wh, df, object_name, out) IN
    /\ Len(wh.rows) + Len(df.rows) <= MaxRows
    /\ wh' = r.wh
    /\ last' = Call("load", <<>>, object_name, df, "None", r.exc, NoExc, r.calls,
                    Env("-", NoGet, out))
    /\ UNCHANGED <<nameVars, storeVars, df, clock, mainVars>>

Tick ==
    /\ clock < MaxClock
    /\ clock' = clock + 1
    /\ UNCHANGED <<nameVars, storeVars, wh, df, last, mainVars>>

NextEtl ==
    \/ \E nm \in EtlBuckets, k \in EtlKeys, net \in Acts : Extract(nm, k, net)
    \/ \E object_name \in ObjectNames : Transform(object_name)
    \/ \E object_name \in ObjectNames, out \in LoadOutcomes : Load(object_name, out)
    \/ Tick
SpecEtl == InitEtl /\ [][NextEtl]_vars

(***************************************************************************)
(* Spec: main().  One action per call main() makes.  An exception that     *)
(* leaves a call ends the run (pc = "aborted"): main() has no try.         *)
(*                                                                         *)
(* The file the URL of month m serves holds one row, the value m.  The     *)
(* environment picks one scenario per call and at most MaxFaults           *)
(* scenarios other than the nominal one per run.                           *)
(***************************************************************************)
FirstMonth == 1
StopMonth == 13
Served(m) == Body(TRUE, <<m>>)

CreateScenarios == {"ok", "probe", "make"}
StageScenarios == {"ok", "probe", "transport", "status", "upload"}
Fault(sc) == IF sc \in {"ok", "none"} THEN 0 ELSE 1
ProbeOf(sc) == IF sc = "probe" THEN "error" ELSE "answer"
GetOf(sc, m) ==
    IF sc = "transport" THEN NoGet
    ELSE IF sc = "status" THEN [raised |-> FALSE, status |-> 404, body |-> Garbage]
    ELSE [raised |-> FALSE, status |-> 200, body |-> Served(m)]
ActOf(sc, bad) == IF sc = bad THEN "error" ELSE "ok"

\* a call main() made: what it returned or raised, and the rows of the frame
\* it returned or was given
Entry(op, key, ret, exc, rows) ==
    [op |-> op, key |-> key, ret |-> ret, exc |-> exc, rows |-> rows]

Init ==
    /\ NameIdle /\ EtlIdle /\ last = NoCall
    /\ buckets \in {{}, {BUCKET_NAME}}
    /\ objects = {}
    /\ pc = "create_bucket" /\ i = 0 /\ files_loaded = <<>> /\ trace = <<>> /\ faults = 0

\* a staging that returns False ends the run
AfterStage_failfast(m, r) ==
    IF r.exc # NoExc \/ r.ret = "False" THEN [pc |-> "aborted", i |-> m]
    ELSE IF m + 1 < StopMonth THEN [pc |-> "stage", i |-> m + 1]
    ELSE [pc |-> "extract", i |-> 1]
\* where main() stands after the staging call of month m returned r: the first
\* loop runs to its end before the second starts, and ignores what was returned
AfterStage(m, r) ==
    IF r.exc # NoExc THEN [pc |-> "aborted", i |-> m]
    ELSE IF m + 1 < StopMonth THEN [pc |-> "stage", i |-> m + 1]
    ELSE [pc |-> "extract", i |-> 1]

MainCreateBucket(sc) ==
    LET r == create_bucket(buckets, objects, BUCKET_NAME,
                           ProbeOf(sc), ActOf(sc, "make")) IN
    /\ pc = "create_bucket"
    /\ faults + Fault(sc) <= MaxFaults
    /\ faults' = faults + Fault(sc)
    /\ buckets' = r.buckets
    /\ objects' = r.objects
    /\ last' = Call("create_bucket", BUCKET_NAME, "", DataFrame, r.ret, r.exc,
                    r.cause, r.calls, Env(ProbeOf(sc), NoGet, ActOf(sc, "make")))
    /\ trace' = Append(trace, Entry("create_bucket", "", r.ret, r.exc, 0))
    /\ pc' = IF r.exc # NoExc THEN "aborted" ELSE "stage"
    /\ i' = IF r.exc # NoExc THEN i ELSE FirstMonth
    /\ UNCHANGED <<nameVars, etlVars, files_loaded>>

MainStage(sc) ==
    LET filepath == Filepath(i)
        r == load_data_to_bucket_via_url(buckets, objects, BUCKET_NAME, filepath,
                 ProbeOf(sc), GetOf(sc, i), ActOf(sc, "upload"))
        next == AfterStage(i, r)
    IN
    /\ pc = "stage"
    /\ faults + Fault(sc) <= MaxFaults
    /\ faults' = faults + Fault(sc)
    /\ files_loaded' = Append(files_loaded, filepath)
    /\ buckets' = r.buckets
    /\ objects' = r.objects
    /\ last' = Call("stage", BUCKET_NAME, filepath, DataFrame, r.ret, r.exc,
                    r.cause, r.calls,
                    Env(ProbeOf(sc), GetOf(sc, i), ActOf(sc, "upload")))
    /\ trace' = Append(trace, Entry("stage", filepath, r.ret, r.exc, 0))
    /\ pc' = next.pc
    /\ i' = next.i
    /\ UNCHANGED <<nameVars, etlVars>>

MainExtract(net) ==
    LET file == files_loaded[i]
        r == extract_parquet_from_s3(buckets, objects, BUCKET_NAME, file, net)
    IN
    /\ pc = "extract"
    /\ faults + Fault(net) <= MaxFaults
    /\ faults' = faults + Fault(net)
    /\ df' = IF r.exc = NoExc THEN r.df ELSE df
    /\ last' = Call("extract", BUCKET_NAME, file, DataFrame, "-", r.exc, NoExc,
                    r.calls, Env("-", NoGet, net))
    /\ trace' = Append(trace, Entry("extract", file, "-", r.exc,
                                    IF r.exc = NoExc THEN Len(r.df.rows) ELSE 0))
    /\ pc' = IF r.exc # NoExc THEN "aborted" ELSE "transform"
    /\ UNCHANGED <<nameVars, storeVars, wh, clock, i, files_loaded>>

\* transform_df(df): object_name is left to its default, ""
MainTransform ==
    /\ pc = "transform"
    /\ df' = transform_df(df, "", clock)
    /\ last' = Call("transform", <<>>, "", df, "-", NoExc, NoExc, <<>>, NoEnv)
    /\ trace' = Append(trace, Entry("transform", files_loaded[i], "-", NoExc,
                                    Len(df'.rows)))
    /\ pc' = "load"
    /\ UNCHANGED <<nameVars, storeVars, wh, clock, i, files_loaded, faults>>

MainLoad(out) ==
    LET file == files_loaded[i]
        r == load_df_to_postgres(wh, df, file, out)
    IN
    /\ pc = "load"
    /\ faults + Fault(out) <= MaxFaults
    /\ faults' = faults + Fault(out)
    /\ wh' = r.wh
    /\ last' = Call("load", <<>>, file, df, "None", r.exc, NoExc, r.calls,
                    Env("-", NoGet, out))
    /\ trace' = Append(trace, Entry("load", file, "None", r.exc, Len(df.rows)))
    /\ pc' = IF r.exc # NoExc THEN "aborted"
             ELSE IF i < Len(files_loaded) THEN "extract" ELSE "done"
    /\ i' = IF r.exc = NoExc /\ i < Len(files_loaded) THEN i + 1 ELSE i
    /\ UNCHANGED <<nameVars, storeVars, df, clock, files_loaded>>

Next ==
    \/ \E sc \in CreateScenarios : MainCreateBucket(sc)
    \/ \E sc \in StageScenarios : MainStage(sc)
    \/ \E net \in Acts : MainExtract(net)
    \/ MainTransform
    \/ \E out \in LoadOutcomes : MainLoad(out)
Spec == Init /\ [][Next]_vars

(***************************************************************************)
(* Properties.                                                             *)
(***************************************************************************)
IsPrefix(a, b) == Len(a) <= Len(b) /\ SubSeq(b, 1, Len(a)) = a
Months == FirstMonth..(StopMonth - 1)
Keys12 == [m \in 1..(StopMonth - FirstMonth) |-> Filepath(FirstMonth + m - 1)]
MonthOf(key) == CHOOSE m \in Months : Filepath(m) = key
Ops(tr, op) == SelectSeq(tr, LAMBDA e : e.op = op)
KeysOf(tr) == [n \in 1..Len(tr) |-> tr[n].key]
Tagged(w, k) == Len(SelectSeq(w.rows, LAMBDA r : r.source_file = k))
RowsOf(w, m) == Len(SelectSeq(w.rows, LAMBDA r : r.d = m))
GetOk(c) == ~c.env.get.raised /\ c.env.get.status = 200

\* C1: loading the same non-empty transformed batch for the same source
\* identifier twice in a row leaves as many rows tagged with that identifier
\* as the first load did.
C1_LoadIdempotent ==
    [][(/\ last.op = "load" /\ last.exc = NoExc /\ ~empty(last.df)
        /\ last'.op = "load" /\ last'.exc = NoExc
        /\ last'.df = last.df /\ last'.key = last.key)
       => Tagged(wh', last.key) = Tagged(wh, last.key)]_vars

\* C2: every row main() loads for month m carries source_file = the key staged
\* for m and source_system = the fixed constant.
C2_Provenance ==
    \A n \in 1..Len(wh.rows) :
        /\ wh.rows[n].source_file = Filepath(wh.rows[n].d)
        /\ wh.rows[n].source_system = SOURCE_SYSTEM

\* C3: a staging call that meets a transport error on the GET, a non-200 status
\* or an upload error returns False, raises nothing and leaves buckets and
\* objects as they were; it returns True only when the download and the upload
\* both completed, the object then being in the bucket.
StagingError(c, bks) ==
    /\ c.env.probe = "answer"
    /\ \/ c.env.get.raised
       \/ c.env.get.status # 200
       \/ c.env.act = "error"
       \/ c.bucket \notin bks
C3_StagingFailureContained ==
    [][last'.op = "stage" =>
        /\ StagingError(last', buckets) =>
              /\ last'.ret = "False" /\ last'.exc = NoExc
              /\ objects' = objects /\ buckets' = buckets
        /\ last'.ret = "True" =>
              /\ GetOk(last') /\ last'.env.act = "ok"
              /\ [bucket |-> last'.bucket, key |-> last'.key,
                  body |-> last'.env.get.body] \in objects']_vars
C3_Witness ==
    /\ last.op = "stage" /\ last.ret = "False"
    /\ GetOk(last) /\ last.env.act = "error" /\ last.bucket \in buckets
    /\ \E o \in objects : o.bucket = last.bucket /\ o.key = last.key

\* C4: whenever the query fails (round trip fails, no such bucket or object,
\* the object is no parquet file) extract returns the empty DataFrame() and
\* raises nothing.
QueryFails(c, bks, objs) ==
    \/ c.env.act = "error"
    \/ c.bucket \notin bks
    \/ ~\E o \in objs : o.bucket = c.bucket /\ o.key = c.key /\ o.body.parquet
C4_ExtractDegrades ==
    [][(last'.op = "extract" /\ QueryFails(last', buckets, objects))
       => (df' = DataFrame /\ last'.exc = NoExc)]_vars
C4_Witness ==
    /\ last.op = "extract" /\ last.env.act = "ok" /\ last.exc = NoExc
    /\ last.bucket \in buckets
    /\ ~\E o \in objects : o.bucket = last.bucket /\ o.key = last.key
    /\ df = DataFrame

\* C5: transform returns an empty frame as it is, and load of an empty frame
\* makes no call to the warehouse and leaves schema, table and rows as
\* they were.
C5_EmptyNoOp ==
    [][/\ (last'.op = "transform" /\ df.rows = <<>>) => df' = df
       /\ (last'.op = "load" /\ last'.df.rows = <<>>) =>
              (last'.calls = <<>> /\ last'.exc = NoExc /\ wh' = wh)]_vars
C5_Witness ==
    /\ last.op = "load" /\ last.df.rows = <<>>
    /\ last.calls = <<>> /\ Len(wh.rows) > 0

\* C6: the staging calls are made for the 12 keys in month order, all of them
\* before the first extract, transform or load; a staging that returned False
\* is followed by the staging of the next month; the second pass takes the
\* same keys in the same order, all 12 in a run that ends.
SecondPass == {"extract", "transform", "load"}
IsDigits(t) == t # <<>> /\ Range(t) \subseteq DigitChars
IpShaped(s) ==
    LET dots == {n \in 1..Len(s) : s[n] = "."} IN
    /\ Cardinality(dots) = 3
    /\ \E a, b, c \in dots :
          /\ a < b /\ b < c
          /\ IsDigits(SubSeq(s, 1, a - 1)) /\ IsDigits(SubSeq(s, a + 1, b - 1))
          /\ IsDigits(SubSeq(s, b + 1, c - 1)) /\ IsDigits(SubSeq(s, c + 1, Len(s)))
Rejected(s) ==
    \/ Len(s) < 3
    \/ Len(s) > 63
    \/ "_" \in Range(s)
    \/ Range(s) \cap UpperChars # {}
    \/ IpShaped(s)
    \/ (Len(s) >= 4 /\ \A n \in 1..4 : s[n] = XnPrefix[n])
    \/ (Len(s) >= 8 /\ \A n \in 1..8 : s[Len(s) - 8 + n] = S3Alias[n])
WellFormed(s) ==
    /\ Range(s) \subseteq LowerChars \cup DigitChars \cup {".", "-"}
    /\ s[1] \notin {".", "-"}
    /\ s[Len(s)] \notin {".", "-"}
C8_ValidateName ==
    /\ Rejected(name) => valid = FALSE
    /\ (~Rejected(name) /\ WellFormed(name)) => valid = TRUE
C8_Witness == valid = TRUE /\ Len(name) = 63 /\ "." \in Range(name)

\* C9: a failure of create_bucket ends the run with nothing staged; a failure
\* of the load of a key ends the run there, the rows of the months loaded
\* before staying in the table; a staging that met a transport error, a
\* non-200 status or an upload error (it returned False) and an extraction
\* whose query failed (it returned no rows) never end the run.
ContainedFailure(e) ==
    \/ e.op = "stage" /\ e.ret = "False"
    \/ e.op = "extract" /\ e.rows = 0
C10_AbsentBucketLogOnly ==
    [][(last'.op = "stage" /\ last'.env.probe = "answer"
            /\ last'.bucket \notin buckets) =>
        /\ last'.exc = NoExc
        /\ "get" \in Range(last'.calls)
        /\ "put_object" \in Range(last'.calls) <=> GetOk(last')
        /\ last'.ret = "False"
        /\ buckets' = buckets /\ objects' = objects]_vars
C10_Witness ==
    /\ last.op = "stage" /\ last.bucket \notin buckets
    /\ last.ret = "False" /\ "put_object" \in Range(last.calls)

====
